---- MODULE Spec2Model ----
(***************************************************************************)
(* Wallet deep-link connect/sign session of block_delivery_app.            *)
(*                                                                         *)
(* Two callback modules (lib/solflare-callback.ts, lib/phantom-callback.ts)*)
(* each hold a module-level `state`, `listeners` and `keypair`.  The       *)
(* screen (app/(tabs)/index.tsx) subscribes to both, keeps a React copy of *)
(* each state, keeps its own keypair refs, and drives connect, disconnect  *)
(* and sign requests.  Inbound deep links reach the handlers through the   *)
(* Linking 'url' listener, which passes each URL to both handlers.  The    *)
(* model is the mobile (deep-link) code path with a connected provider     *)
(* wallet selected; the local hot wallet and the web SDK path never touch  *)
(* the session state.                                                      *)
(***************************************************************************)
EXTENDS Integers, Sequences, FiniteSets, TLC

\* number of keypairs nacl.box.keyPair() hands out in a run
MaxKeys == 2

\* number of deep links delivered to the app in a run
MaxUrls == 2

\* requests (connect or sign URLs) one provider's wallet can hold unanswered
MaxRequests == 2

\* subscriptions one callback module holds at a time
MaxListeners == 2

WALLET_SOLFLARE == "solflare"
WALLET_PHANTOM == "phantom"

Providers == {WALLET_SOLFLARE, WALLET_PHANTOM}

Other(p) == IF p = WALLET_SOLFLARE THEN WALLET_PHANTOM ELSE WALLET_SOLFLARE

\* null / undefined of a string-valued field
Null == "null"
\* null / undefined of a structured value (key, base58 string, URL, message)
None == <<>>

(***************************************************************************)
(* Values.  Texts that take part in string interpolation (errorCode,       *)
(* errorMessage, error) are sequences of tokens and interpolation is       *)
(* concatenation; base58 strings wrap the bytes they encode; a keypair is  *)
(* named by <<owner, n>> and stands for both of its halves.                *)
(***************************************************************************)

\* the n-th keypair nacl.box.keyPair() returned to provider p's connect
DappKey(p, n) == <<p, n>>

\* encryption keypairs of the wallet app: the one it answers connect with,
\* and another one
Kw1 == <<"wallet", 1>>
Kw2 == <<"wallet", 2>>

WalletKeys == {Kw1, Kw2}

bs58encode(bytes) == <<"b58", bytes>>

decodeBase58(value) == value[2]

JSONstringify(obj) == <<"json", obj>>

JSONparse(text) == text[2]

\* bs58.decode(value) returns: value is a base58 string (it throws otherwise)
IsBase58(value) == value[1] = "b58"

\* JSON.parse(text) returns: text is JSON (it throws otherwise)
IsJSON(text) == text[1] = "json"

\* the Error thrown by bs58.decode, the SyntaxError thrown by JSON.parse
DecodeErrorText == <<"Non-base58 character">>
ParseErrorText == <<"Unexpected token">>

\* a key agreement that depends on the caller's own key only
boxBefore_OwnKeyOnly(publicKey, secretKey) == {secretKey}

\* nacl.box.before(theirPublicKey, mySecretKey): the same secret from either side
boxBefore(publicKey, secretKey) == {publicKey, secretKey}

\* nacl.box.after(message, nonce, sharedSecret)
boxAfter(message, nonce, sharedSecret) == <<sharedSecret, nonce, message>>

\* an open that does not bind the nonce
boxOpenAfter_IgnoresNonce(box, nonce, sharedSecret) ==
    IF box[1] = sharedSecret THEN <<box[3]>> ELSE None

\* nacl.box.open.after(box, nonce, sharedSecret): <<message>>, or None for null
boxOpenAfter(box, nonce, sharedSecret) ==
    IF box[1] = sharedSecret /\ box[2] = nonce THEN <<box[3]>> ELSE None

\* property read on an object: undefined when the object has no such field
Get(obj, field) == IF field \in DOMAIN obj THEN obj[field] ELSE Null

\* same, for fields that hold a base58 string
GetB58(obj, field) == IF field \in DOMAIN obj THEN obj[field] ELSE None

(***************************************************************************)
(* lib/phantom-callback.ts                                                 *)
(***************************************************************************)

PhantomInitialState ==
    [publicKey |-> Null, session |-> Null, phantomEncryptionPublicKey |-> None,
     signature |-> Null, lastUrl |-> None, error |-> None]

\* a reset that clears the error alone
resetPhantomState_KeepsSession(st) == [st EXCEPT !.error = None]

resetPhantomState(st) == [PhantomInitialState EXCEPT !.lastUrl = st.lastUrl]

\* result of a call that may throw
Return(v) == [ok |-> TRUE, value |-> v]
Throw(message) == [ok |-> FALSE, message |-> message]

\* a decryptPayload that opens the box without authenticating it
decryptPayload_SkipsAuthentication(kp, encryptedPayload, nonce, phantomPubkey) ==
    IF kp = None
    THEN Throw(<<"Missing keypair">>)
    ELSE Return(JSONparse(decodeBase58(encryptedPayload)[3]))

decryptPayload(kp, encryptedPayload, nonce, phantomPubkey) ==
    IF kp = None
    THEN Throw(<<"Missing keypair">>)
    ELSE IF ~IsBase58(phantomPubkey) \/ ~IsBase58(encryptedPayload) \/ ~IsBase58(nonce)
    THEN Throw(DecodeErrorText)
    ELSE LET sharedSecret == boxBefore(decodeBase58(phantomPubkey), kp)
             decrypted == boxOpenAfter(decodeBase58(encryptedPayload),
                                       decodeBase58(nonce), sharedSecret)
         IN IF decrypted = None
            THEN Throw(<<"Unable to decrypt payload">>)
            ELSE IF ~IsJSON(decrypted[1])
            THEN Throw(ParseErrorText)
            ELSE Return(JSONparse(decrypted[1]))

\* the error text of lines 84-88
PhantomErrorText(errorCode, errorMessage) ==
    LET message == IF errorMessage # None THEN errorMessage ELSE <<"Unknown error">>
        isRejected == errorCode = <<"userRejectedRequest">>
    IN IF isRejected THEN <<"Request cancelled in Phantom.">>
       ELSE errorCode \o <<": ">> \o message

\* a handler that reports a redirect lacking a field as an error
PhantomMissingFields_RecordsError(s1) ==
    [s1 EXCEPT !.error = <<"Invalid callback payload">>]

\* a redirect without errorCode that lacks data/payload, nonce or the key:
\* the state (lastUrl already set) is emitted as it is
PhantomMissingFields(s1) == s1

\* an apply that takes a session it already holds for a replay and drops it
PhantomApplyPayload_DropsRepeatedSession(s1, payload, phantomPubkey) ==
    [s1 EXCEPT
       !.publicKey = IF Get(payload, "public_key") # Null
                     THEN payload.public_key ELSE s1.publicKey,
       !.session = IF Get(payload, "session") = s1.session
                   THEN Null ELSE Get(payload, "session"),
       !.signature = IF Get(payload, "signature") # Null
                     THEN payload.signature ELSE s1.signature,
       !.phantomEncryptionPublicKey = phantomPubkey,
       !.error = None]

\* an apply that clears the fields the payload does not carry
PhantomApplyPayload_ClearsAbsent(s1, payload, phantomPubkey) ==
    [s1 EXCEPT
       !.publicKey = Get(payload, "public_key"),
       !.session = Get(payload, "session"),
       !.signature = Get(payload, "signature"),
       !.phantomEncryptionPublicKey = phantomPubkey,
       !.error = None]

\* the state after a decrypted payload is applied
PhantomApplyPayload(s1, payload, phantomPubkey) ==
    [s1 EXCEPT
       !.publicKey = IF Get(payload, "public_key") # Null
                     THEN payload.public_key ELSE s1.publicKey,
       !.session = IF Get(payload, "session") # Null
                   THEN payload.session ELSE s1.session,
       !.signature = IF Get(payload, "signature") # Null
                     THEN payload.signature ELSE s1.signature,
       !.phantomEncryptionPublicKey = phantomPubkey,
       !.error = None]

\* an error test that gives way to a payload the redirect also carries
HasErrorCode_UnlessData(url) == url.errorCode # None /\ url.data = None

\* typeof query.errorCode === 'string'
HasErrorCode(url) == url.errorCode # None

\* a ciphertext read from `data` alone
PhantomCiphertext_DataOnly(url) == url.data

\* query.data ?? query.payload
PhantomCiphertext(url) == IF url.data # None THEN url.data ELSE url.payload

\* a catch block that drops what was thrown
PhantomCatch_Swallows(s1, message) == s1

\* the catch block: err.message becomes the state's error
PhantomCatch(s1, message) == [s1 EXCEPT !.error = message]

handlePhantomCallbackUrl(st, kp, url) ==
    LET s1 == [st EXCEPT !.lastUrl = <<url>>] IN
    IF HasErrorCode(url)
    THEN [s1 EXCEPT !.error = PhantomErrorText(url.errorCode, url.errorMessage)]
    ELSE LET encryptedPayload == PhantomCiphertext(url)
             nonce == url.nonce
             phantomPubkey == url.phantom_encryption_public_key
         IN IF encryptedPayload = None \/ nonce = None \/ phantomPubkey = None
            THEN PhantomMissingFields(s1)
            ELSE LET r == decryptPayload(kp, encryptedPayload, nonce, phantomPubkey) IN
                 IF r.ok
                 THEN PhantomApplyPayload(s1, r.value, phantomPubkey)
                 ELSE PhantomCatch(s1, r.message)

(***************************************************************************)
(* lib/solflare-callback.ts                                                *)
(***************************************************************************)

SolflareInitialState ==
    [publicKey |-> Null, session |-> Null, lastUrl |-> None, error |-> None]

\* a reset to the initial state, lastUrl included
resetSolflareState_ClearsLastUrl(st) == SolflareInitialState

resetSolflareState(st) == [SolflareInitialState EXCEPT !.lastUrl = st.lastUrl]

decryptPayloadSolflare(kp, encryptedPayload, nonce, solflarePubkey) ==
    IF kp = None
    THEN Throw(<<"Missing keypair">>)
    ELSE IF ~IsBase58(solflarePubkey) \/ ~IsBase58(encryptedPayload) \/ ~IsBase58(nonce)
    THEN Throw(DecodeErrorText)
    ELSE LET sharedSecret == boxBefore(decodeBase58(solflarePubkey), kp)
             decrypted == boxOpenAfter(decodeBase58(encryptedPayload),
                                       decodeBase58(nonce), sharedSecret)
         IN IF decrypted = None
            THEN Throw(<<"Unable to decrypt payload">>)
            ELSE IF ~IsJSON(decrypted[1])
            THEN Throw(ParseErrorText)
            ELSE Return(JSONparse(decrypted[1]))

\* the error text of lines 79-80
SolflareErrorText(errorCode, errorMessage) ==
    LET message == IF errorMessage # None THEN errorMessage ELSE <<"Unknown error">>
    IN errorCode \o <<": ">> \o message

\* a redirect without errorCode that lacks data, nonce or the key
SolflareMissingFields(s1) == s1

\* the state after a decrypted payload is applied
SolflareApplyPayload(s1, payload) ==
    [s1 EXCEPT
       !.publicKey = IF Get(payload, "public_key") # Null
                     THEN payload.public_key ELSE s1.publicKey,
       !.session = IF Get(payload, "session") # Null
                   THEN payload.session ELSE s1.session,
       !.error = None]

handleSolflareCallbackUrl(st, kp, url) ==
    LET s1 == [st EXCEPT !.lastUrl = <<url>>] IN
    IF HasErrorCode(url)
    THEN [s1 EXCEPT !.error = SolflareErrorText(url.errorCode, url.errorMessage)]
    ELSE LET encryptedPayload == url.data
             nonce == url.nonce
             solflarePubkey == url.solflare_encryption_public_key
         IN IF encryptedPayload = None \/ nonce = None \/ solflarePubkey = None
            THEN SolflareMissingFields(s1)
            ELSE LET r == decryptPayloadSolflare(kp, encryptedPayload, nonce,
                                                 solflarePubkey) IN
                 IF r.ok
                 THEN SolflareApplyPayload(s1, r.value)
                 ELSE [s1 EXCEPT !.error = r.message]

\* the two modules behind one provider-indexed interface
initialState(p) ==
    IF p = WALLET_PHANTOM THEN PhantomInitialState ELSE SolflareInitialState

resetState(p, st) ==
    IF p = WALLET_PHANTOM THEN resetPhantomState(st) ELSE resetSolflareState(st)

handleCallbackUrl(p, st, kp, url) ==
    IF p = WALLET_PHANTOM THEN handlePhantomCallbackUrl(st, kp, url)
    ELSE handleSolflareCallbackUrl(st, kp, url)

\* name of the state field the screens read the wallet's encryption key from
EncryptionPublicKeyField(p) ==
    IF p = WALLET_PHANTOM THEN "phantomEncryptionPublicKey"
    ELSE "solflareEncryptionPublicKey"

(***************************************************************************)
(* Deep-link URLs.  A URL is its redirect path and its query parameters.   *)
(***************************************************************************)

\* Linking.createURL('solflare-connect' | 'phantom-connect')
RedirectLink(p) == IF p = WALLET_PHANTOM THEN "phantom-connect" ELSE "solflare-connect"

\* query key under which provider p's wallet sends its encryption public key
EncryptionKeyParam(p) ==
    IF p = WALLET_PHANTOM THEN "phantom_encryption_public_key"
    ELSE "solflare_encryption_public_key"

BareUrl(path) ==
    [path |-> path, errorCode |-> None, errorMessage |-> None,
     data |-> None, payload |-> None, nonce |-> None,
     solflare_encryption_public_key |-> None,
     phantom_encryption_public_key |-> None]

\* the wallet's rejection / failure redirect
ErrorUrl(p, code, message) ==
    [BareUrl(RedirectLink(p)) EXCEPT !.errorCode = code, !.errorMessage = message]

\* the wallet's success redirect: plain encrypted for dapp key kd by wallet key kw
PayloadUrl(p, kd, kw, n, plain) ==
    [BareUrl(RedirectLink(p)) EXCEPT
        !.data = bs58encode(boxAfter(JSONstringify(plain), n, boxBefore(kd, kw))),
        !.nonce = bs58encode(n),
        ![EncryptionKeyParam(p)] = bs58encode(kw)]

\* <<errorCode, errorMessage>> of error redirects: a rejection with the
\* message "denied: by user", the code "userRejectedRequest: denied" with the
\* message "by user", and the code "4001" without a message
ErrorParams ==
    {<< <<"userRejectedRequest">>, <<"denied", ": ", "by user">> >>,
     << <<"userRejectedRequest", ": ", "denied">>, <<"by user">> >>,
     << <<"4001">>, None >>}

\* decrypted payload JSON: connect response, connect response without
\* session, sign response
ConnectResponse == [public_key |-> "Addr1", session |-> "Tok1"]
AddressOnlyResponse == [public_key |-> "Addr1"]
SignResponse == [signature |-> "Sig1"]

Payloads == {ConnectResponse, AddressOnlyResponse, SignResponse}

WalletNonce == "n1"

ErrorUrls == {ErrorUrl(p, e[1], e[2]) : p \in Providers, e \in ErrorParams}

\* success redirects a wallet can send for the dapp keys it has seen
PayloadUrlsFor(p, seen) ==
    {PayloadUrl(p, DappKey(p, i), kw, WalletNonce, pl) :
        i \in seen, kw \in WalletKeys, pl \in Payloads}

\* a success redirect with one required parameter missing
MalformedUrlsFor(p) ==
    LET u == PayloadUrl(p, DappKey(p, 1), Kw1, WalletNonce, ConnectResponse) IN
    {[u EXCEPT !.nonce = None], [u EXCEPT !.data = None],
     [u EXCEPT ![EncryptionKeyParam(p)] = None]}

\* the nonce of a redirect whose nonce parameter is not the box's
ForgedNonce == "n9"

\* success redirects that do not authenticate: the nonce parameter is not the
\* one the box was made with, or the key parameter is not the key it was
\* made under
TamperedUrlsFor(p, seen) ==
    {[PayloadUrl(p, DappKey(p, i), Kw1, WalletNonce, ConnectResponse)
         EXCEPT !.nonce = bs58encode(ForgedNonce)] : i \in seen}
    \cup {[PayloadUrl(p, DappKey(p, i), Kw2, WalletNonce, ConnectResponse)
              EXCEPT ![EncryptionKeyParam(p)] = bs58encode(Kw1)] : i \in seen}

IsErrorUrl(u) == u.errorCode # None

IsPayloadUrlFor(p, u) ==
    /\ u.errorCode = None
    /\ (IF p = WALLET_PHANTOM THEN u.data # None \/ u.payload # None ELSE u.data # None)
    /\ u.nonce # None
    /\ u[EncryptionKeyParam(p)] # None

(***************************************************************************)
(* State                                                                   *)
(***************************************************************************)

VARIABLES
    state,         \* [provider -> the callback module's `state`]
    keypair,       \* [provider -> the callback module's `keypair`]
    keypairRef,    \* [provider -> keypairRef.current / phantomKeypairRef.current]
    screenState,   \* [provider -> the screen's solflareState / phantomState]
    activeWallet,  \* the screen's activeWallet
    connecting,    \* provider whose connect awaits Linking.openURL (isLoading), or "none"
    signOp,        \* the sign request in progress (isCreating) and what its closure captured
    lastSignUrl,   \* the last signAndSendTransaction URL built, <<url>> or None
    keyCount,      \* [provider -> number of keypairs nacl.box.keyPair() has returned]
    urlCount,      \* number of deep links delivered so far
    opened,        \* [provider -> keypairs whose connect URL reached the wallet]
    requestsOut,   \* [provider -> requests handed to the wallet and not yet answered]
    listeners,     \* [provider -> the callback module's `listeners`]
    notified,      \* the listener calls the last operation made, in order
    probe,         \* an encryption handed from one party to the other
    slots,         \* [slot -> the value wallet-store holds for it]
    slotListeners, \* [slot -> wallet-store's listeners array of the slot]
    lastOp         \* history: the last operation and the statuses it started from

vars == <<state, keypair, keypairRef, screenState, activeWallet, connecting,
          signOp, lastSignUrl, keyCount, urlCount, opened, requestsOut,
          listeners, notified, probe, slots, slotListeners, lastOp>>

walletStoreVars == <<slots, slotListeners>>

\* the subscriptions of the callback modules and what they were last told
storeVars == <<listeners, notified>>

\* the state of the screen
screenVars == <<keypairRef, screenState, activeWallet, connecting, signOp,
                lastSignUrl, keyCount, opened, requestsOut>>

\* statusText of the screen, read off the module state of one provider
Status(p) ==
    IF state[p].error # None THEN "Error"
    ELSE IF state[p].publicKey # Null THEN "Connected"
    ELSE "NotConnected"

StatusNow == [q \in Providers |-> Status(q)]

Op(name, p) == [op |-> name, p |-> p, from |-> StatusNow]

IdleSignOp ==
    [pc |-> "idle", wallet |-> "none", session |-> Null,
     encryptionPublicKey |-> None, signature |-> Null]

isLoading == connecting # "none"

isCreating == signOp.pc # "idle"

\* the deep links that can arrive: error redirects, the wallet's replies to
\* the connect URLs it was handed, replies that were tampered with, and
\* redirects lacking a parameter
Urls ==
    ErrorUrls
    \cup UNION {PayloadUrlsFor(p, opened[p]) : p \in Providers}
    \cup UNION {TamperedUrlsFor(p, opened[p]) : p \in Providers}
    \cup UNION {MalformedUrlsFor(p) : p \in Providers}

\* no encryption under way
NoProbe == [pc |-> "none"]

\* the four values wallet-store holds
Slots == {"activeWallet", "localKeypair", "solflareBoxKeypair", "phantomBoxKeypair"}

WALLET_LOCAL == "local"

\* a Keypair of the local wallet
LocalKey == <<"local", 1>>

\* wallet-store at module load
InitialSlots ==
    [s \in Slots |-> IF s = "activeWallet" THEN WALLET_SOLFLARE ELSE None]

\* the values a setter of wallet-store is called with
SlotValues(s) ==
    IF s = "activeWallet" THEN {WALLET_SOLFLARE, WALLET_PHANTOM, WALLET_LOCAL}
    ELSE IF s = "localKeypair" THEN {None, LocalKey}
    ELSE IF s = "solflareBoxKeypair" THEN {None, DappKey(WALLET_SOLFLARE, 1)}
    ELSE {None, DappKey(WALLET_PHANTOM, 1)}

Init ==
    /\ state = [p \in Providers |-> initialState(p)]
    /\ keypair = [p \in Providers |-> None]
    /\ keypairRef = [p \in Providers |-> None]
    /\ screenState = [p \in Providers |-> initialState(p)]
    /\ activeWallet = WALLET_SOLFLARE
    /\ connecting = "none"
    /\ signOp = IdleSignOp
    /\ lastSignUrl = None
    /\ keyCount = [p \in Providers |-> 0]
    /\ urlCount = 0
    /\ opened = [p \in Providers |-> {}]
    /\ requestsOut = [p \in Providers |-> 0]
    /\ listeners = [p \in Providers |-> <<>>]
    /\ notified = <<>>
    /\ probe = NoProbe
    /\ slots = InitialSlots
    /\ slotListeners = [s \in Slots |-> <<>>]
    /\ lastOp = [op |-> "init", p |-> "none",
                 from |-> [q \in Providers |-> "NotConnected"]]

(***************************************************************************)
(* Screen operations (app/(tabs)/index.tsx)                                *)
(***************************************************************************)

\* the Solflare / Phantom switch buttons
SetActiveWallet(w) ==
    /\ activeWallet' = w
    /\ lastOp' = Op("setActiveWallet", w)
    /\ UNCHANGED <<state, keypair, keypairRef, screenState, connecting, signOp,
                   lastSignUrl, keyCount, urlCount, opened,
                   requestsOut>>
    /\ UNCHANGED storeVars
    /\ UNCHANGED probe
    /\ UNCHANGED walletStoreVars

\* a Connect button that is disabled while a request of the provider is out
ConnectOffered_NotWhileRequestOut(p) ==
    /\ activeWallet = p
    /\ screenState[p].publicKey = Null
    /\ ~isLoading
    /\ requestsOut[p] = 0

\* the Connect button of provider p is rendered and not disabled
ConnectOffered(p) ==
    /\ activeWallet = p
    /\ screenState[p].publicKey = Null
    /\ ~isLoading

\* the Disconnect button of provider p is rendered and not disabled
DisconnectOffered(p) ==
    /\ activeWallet = p
    /\ screenState[p].publicKey # Null
    /\ ~isLoading

\* connect / connectPhantom up to `await Linking.openURL(url)`
Connect(p) ==
    /\ ConnectOffered(p)
    /\ keyCount[WALLET_SOLFLARE] + keyCount[WALLET_PHANTOM] < MaxKeys
    /\ LET kp == DappKey(p, keyCount[p] + 1)
           reset == resetState(p, state[p])
       IN /\ state' = [state EXCEPT ![p] = reset]
          /\ screenState' = [screenState EXCEPT ![p] = reset]
          /\ keypairRef' = [keypairRef EXCEPT ![p] = kp]
          /\ keypair' = [keypair EXCEPT ![p] = kp]
    /\ keyCount' = [keyCount EXCEPT ![p] = @ + 1]
    /\ connecting' = p
    /\ requestsOut' = [requestsOut EXCEPT ![p] = 0]
    /\ lastOp' = Op("connect", p)
    /\ UNCHANGED <<activeWallet, signOp, lastSignUrl, urlCount, opened>>
    /\ UNCHANGED storeVars
    /\ UNCHANGED probe
    /\ UNCHANGED walletStoreVars

\* Linking.openURL resolved
ConnectOpened(p) ==
    /\ connecting = p
    /\ connecting' = "none"
    /\ opened' = [opened EXCEPT ![p] = @ \cup {keyCount[p]}]
    /\ requestsOut' = [requestsOut EXCEPT ![p] = @ + 1]
    /\ lastOp' = Op("connectOpened", p)
    /\ UNCHANGED <<state, keypair, keypairRef, screenState, activeWallet, signOp,
                   lastSignUrl, keyCount, urlCount>>
    /\ UNCHANGED storeVars
    /\ UNCHANGED probe
    /\ UNCHANGED walletStoreVars

UnableToOpen(p) ==
    IF p = WALLET_PHANTOM THEN <<"Unable to open Phantom.">>
    ELSE <<"Unable to open Solflare.">>

\* Linking.openURL rejected: the catch block
ConnectFailed(p) ==
    /\ connecting = p
    /\ LET reset == resetState(p, state[p]) IN
          /\ state' = [state EXCEPT ![p] = reset]
          /\ screenState' = [screenState EXCEPT
                                ![p] = [reset EXCEPT !.error = UnableToOpen(p)]]
    /\ connecting' = "none"
    /\ lastOp' = Op("connectFailed", p)
    /\ UNCHANGED <<keypair, keypairRef, activeWallet, signOp, lastSignUrl, keyCount,
                   urlCount, opened,
                   requestsOut>>
    /\ UNCHANGED storeVars
    /\ UNCHANGED probe
    /\ UNCHANGED walletStoreVars

\* disconnect / disconnectPhantom
Disconnect(p) ==
    /\ DisconnectOffered(p)
    /\ keypair' = [keypair EXCEPT ![p] = None]
    /\ LET reset == resetState(p, state[p]) IN
          /\ state' = [state EXCEPT ![p] = reset]
          /\ screenState' = [screenState EXCEPT ![p] = reset]
    /\ requestsOut' = [requestsOut EXCEPT ![p] = 0]
    /\ lastOp' = Op("disconnect", p)
    /\ UNCHANGED <<keypairRef, activeWallet, connecting, signOp, lastSignUrl, keyCount,
                   urlCount, opened>>
    /\ UNCHANGED storeVars
    /\ UNCHANGED probe
    /\ UNCHANGED walletStoreVars

\* url, which left provider p's state st, answers a request p's wallet
\* holds: the wallet's error redirect, or a payload the handler decrypted
Answers(p, url, st) ==
    /\ url.path = RedirectLink(p)
    /\ \/ IsErrorUrl(url)
       \/ IsPayloadUrlFor(p, url) /\ st.error = None

\* the Linking 'url' listener: every inbound URL goes to both handlers
LinkingUrl(url) ==
    /\ urlCount < MaxUrls
    /\ urlCount' = urlCount + 1
    /\ state' = [p \in Providers |-> handleCallbackUrl(p, state[p], keypair[p], url)]
    /\ screenState' = state'
    /\ requestsOut' = [p \in Providers |->
                          IF Answers(p, url, state'[p]) /\ requestsOut[p] > 0
                          THEN requestsOut[p] - 1 ELSE requestsOut[p]]
    /\ lastOp' = Op("url", "both")
    /\ UNCHANGED <<keypair, keypairRef, activeWallet, connecting, signOp,
                   lastSignUrl, keyCount, opened>>
    /\ UNCHANGED storeVars
    /\ UNCHANGED probe
    /\ UNCHANGED walletStoreVars

\* nonce drawn by nacl.randomBytes for a sign request
RequestNonce == "n2"

encryptPayload(payload, encryptionPublicKey, kp) ==
    LET sharedSecret == boxBefore(decodeBase58(encryptionPublicKey), kp)
        nonce == RequestNonce
        encrypted == boxAfter(JSONstringify(payload), nonce, sharedSecret)
    IN [data |-> bs58encode(encrypted), nonce |-> bs58encode(nonce),
        dappPublicKey |-> bs58encode(kp)]

\* createOrder / acceptOrder / completeOrder pressed: the handler of the
\* current render starts and suspends at its first await; its closure holds
\* the solflareState / phantomState of that render
SignStart(p) ==
    /\ requestsOut[p] < MaxRequests
    /\ ~isCreating
    /\ activeWallet = p
    /\ screenState[p].publicKey # Null
    /\ signOp' = [pc |-> "awaiting", wallet |-> p,
                  session |-> Get(screenState[p], "session"),
                  encryptionPublicKey |->
                      GetB58(screenState[p], EncryptionPublicKeyField(p)),
                  signature |-> Get(screenState[p], "signature")]
    /\ lastOp' = Op("signStart", p)
    /\ UNCHANGED <<state, keypair, keypairRef, screenState, activeWallet,
                   connecting, lastSignUrl, keyCount, urlCount, opened,
                   requestsOut>>
    /\ UNCHANGED storeVars
    /\ UNCHANGED probe
    /\ UNCHANGED walletStoreVars

\* a check that does not look at the session
SignMissing_IgnoresSession(p) ==
    \/ signOp.encryptionPublicKey = None
    \/ keypairRef[p] = None

\* what sendTxWithActiveWallet finds missing after getLatestBlockhash
SignMissing(p) ==
    \/ signOp.session = Null
    \/ signOp.encryptionPublicKey = None
    \/ keypairRef[p] = None

\* 'Missing ... session. Reconnect wallet.' / 'Missing ... keypair.' thrown
SignThrow ==
    /\ signOp.pc = "awaiting"
    /\ SignMissing(signOp.wallet)
    /\ signOp' = IdleSignOp
    /\ lastOp' = Op("signThrow", signOp.wallet)
    /\ UNCHANGED <<state, keypair, keypairRef, screenState, activeWallet,
                   connecting, lastSignUrl, keyCount, urlCount, opened,
                   requestsOut>>
    /\ UNCHANGED storeVars
    /\ UNCHANGED probe
    /\ UNCHANGED walletStoreVars

\* the signAndSendTransaction URL is built and handed to Linking.openURL
SignBuild ==
    /\ signOp.pc = "awaiting"
    /\ ~SignMissing(signOp.wallet)
    /\ LET p == signOp.wallet
           enc == encryptPayload([session |-> signOp.session, transaction |-> "tx"],
                                 signOp.encryptionPublicKey, keypairRef[p])
       IN lastSignUrl' = <<[provider |-> p,
                            dapp_encryption_public_key |-> enc.dappPublicKey,
                            nonce |-> enc.nonce, data |-> enc.data]>>
    /\ signOp' = [signOp EXCEPT !.pc = "opening"]
    /\ requestsOut' = [requestsOut EXCEPT ![signOp.wallet] = @ + 1]
    /\ lastOp' = Op("signBuild", signOp.wallet)
    /\ UNCHANGED <<state, keypair, keypairRef, screenState, activeWallet,
                   connecting, keyCount, urlCount, opened>>
    /\ UNCHANGED storeVars
    /\ UNCHANGED probe
    /\ UNCHANGED walletStoreVars

\* return phantomState.signature ?? null / solflareState.signature ?? null:
\* the state is the one the handler's closure holds
SignReturnValue == signOp.signature

\* Linking.openURL settled: sendTxWithActiveWallet returns or throws
SignReturn ==
    /\ signOp.pc = "opening"
    /\ signOp' = IdleSignOp
    /\ lastOp' = Op("signReturn", signOp.wallet)
    /\ UNCHANGED <<state, keypair, keypairRef, screenState, activeWallet,
                   connecting, lastSignUrl, keyCount, urlCount, opened,
                   requestsOut>>
    /\ UNCHANGED storeVars
    /\ UNCHANGED probe
    /\ UNCHANGED walletStoreVars

Next ==
    \/ \E w \in Providers : SetActiveWallet(w)
    \/ \E p \in Providers : Connect(p)
    \/ \E p \in Providers : ConnectOpened(p)
    \/ \E p \in Providers : ConnectFailed(p)
    \/ \E p \in Providers : Disconnect(p)
    \/ \E url \in Urls : LinkingUrl(url)
    \/ \E p \in Providers : SignStart(p)
    \/ SignThrow
    \/ SignBuild
    \/ SignReturn

Spec == Init /\ [][Next]_vars

(***************************************************************************)
(* The callback modules on their own: subscribe, the returned unsubscribe, *)
(* set...Keypair, reset...State and handle...CallbackUrl called one at a   *)
(* time, as the screens' effects and the *-connect route screens do.       *)
(***************************************************************************)

\* the listener functions the screens pass to subscribe...State
ListenerIds == {"index", "wallet"}

\* an emit that calls the newest subscription first
emit_NewestFirst(ls, st) ==
    [i \in 1..Len(ls) |-> [listener |-> ls[Len(ls) + 1 - i], next |-> st]]

\* emit(): listeners.forEach((listener) => listener(state))
emit(ls, st) == [i \in 1..Len(ls) |-> [listener |-> ls[i], next |-> st]]

\* an unsubscribe that removes one subscription: splice(indexOf(listener), 1)
FilterOut_FirstOnly(ls, listener) ==
    LET first == CHOOSE i \in 1..Len(ls) :
                    ls[i] = listener /\ \A j \in 1..(i - 1) : ls[j] # listener
    IN [i \in 1..(Len(ls) - 1) |-> IF i < first THEN ls[i] ELSE ls[i + 1]]

\* listeners.filter((item) => item !== listener)
FilterOut(ls, listener) == SelectSeq(ls, LAMBDA item : item # listener)

\* the redirects the route screen of provider p hands to its handler
StoreUrls(p) ==
    {ErrorUrl(p, <<"4001">>, None),
     PayloadUrl(p, DappKey(p, 1), Kw1, WalletNonce, ConnectResponse),
     PayloadUrl(p, DappKey(p, 1), Kw1, WalletNonce, SignResponse),
     [PayloadUrl(p, DappKey(p, 1), Kw1, WalletNonce, ConnectResponse)
         EXCEPT !.nonce = None]}

\* subscribePhantomState(listener) / subscribeSolflareState(listener)
Subscribe(p, listener) ==
    /\ Len(listeners[p]) < MaxListeners
    /\ listeners' = [listeners EXCEPT ![p] = Append(@, listener)]
    /\ notified' = <<>>
    /\ lastOp' = Op("subscribe", p)
    /\ UNCHANGED <<state, keypair, urlCount>>
    /\ UNCHANGED screenVars
    /\ UNCHANGED probe
    /\ UNCHANGED walletStoreVars

\* the function subscribe returned for listener is called
Unsubscribe(p, listener) ==
    /\ \E i \in 1..Len(listeners[p]) : listeners[p][i] = listener
    /\ listeners' = [listeners EXCEPT ![p] = FilterOut(@, listener)]
    /\ notified' = <<>>
    /\ lastOp' = Op("unsubscribe", p)
    /\ UNCHANGED <<state, keypair, urlCount>>
    /\ UNCHANGED screenVars
    /\ UNCHANGED probe
    /\ UNCHANGED walletStoreVars

\* setPhantomKeypair(next) / setSolflareKeypair(next)
SetKeypair(p, next) ==
    /\ keypair[p] # next
    /\ keypair' = [keypair EXCEPT ![p] = next]
    /\ notified' = <<>>
    /\ lastOp' = Op("setKeypair", p)
    /\ UNCHANGED <<state, listeners, urlCount>>
    /\ UNCHANGED screenVars
    /\ UNCHANGED probe
    /\ UNCHANGED walletStoreVars

\* resetPhantomState() / resetSolflareState()
Reset(p) ==
    /\ state' = [state EXCEPT ![p] = resetState(p, @)]
    /\ notified' = emit(listeners[p], state'[p])
    /\ lastOp' = Op("reset", p)
    /\ UNCHANGED <<keypair, listeners, urlCount>>
    /\ UNCHANGED screenVars
    /\ UNCHANGED probe
    /\ UNCHANGED walletStoreVars

\* handlePhantomCallbackUrl(url) / handleSolflareCallbackUrl(url)
HandleUrl(p, url) ==
    /\ urlCount < MaxUrls
    /\ urlCount' = urlCount + 1
    /\ state' = [state EXCEPT ![p] = handleCallbackUrl(p, @, keypair[p], url)]
    /\ notified' = emit(listeners[p], state'[p])
    /\ lastOp' = Op("handle", p)
    /\ UNCHANGED <<keypair, listeners>>
    /\ UNCHANGED screenVars
    /\ UNCHANGED probe
    /\ UNCHANGED walletStoreVars

NextStore ==
    \/ \E p \in Providers : \E l \in ListenerIds : Subscribe(p, l)
    \/ \E p \in Providers : \E l \in ListenerIds : Unsubscribe(p, l)
    \/ \E p \in Providers : \E kp \in {None, DappKey(p, 1)} : SetKeypair(p, kp)
    \/ \E p \in Providers : Reset(p)
    \/ \E p \in Providers : \E url \in StoreUrls(p) : HandleUrl(p, url)

SpecStore == Init /\ [][NextStore]_vars

(***************************************************************************)
(* lib/wallet-store.ts: four slots, each with a getter, a setter that       *)
(* notifies the slot's listeners, and a subscribe that returns the          *)
(* unsubscribe; driven together with the subscriptions of the callback      *)
(* modules.                                                                 *)
(***************************************************************************)

\* subscriptions held at one time
MaxSubscriptions == 3

\* the listener functions passed to wallet-store's subscribe functions
SlotListenerIds == {"setState", "setRef", "log"}

RECURSIVE SumLen(_, _)
SumLen(lists, S) ==
    IF S = {} THEN 0
    ELSE LET s == CHOOSE x \in S : TRUE
         IN Len(lists[s]) + SumLen(lists, S \ {s})

\* subscriptions held by wallet-store and by the callback modules
TotalSubscriptions == SumLen(slotListeners, Slots) + SumLen(listeners, Providers)

\* history of a wallet-store operation: the slot, the listener passed and the
\* slot's listeners before the call
SlotOp(name, s, listener) ==
    [op |-> name, p |-> s, from |-> StatusNow, listener |-> listener,
     before |-> slotListeners[s]]

\* subscribeActiveWallet / subscribeLocalKeypair / subscribeSolflareBoxKeypair /
\* subscribePhantomBoxKeypair (listener)
SubscribeSlot(s, listener) ==
    /\ TotalSubscriptions < MaxSubscriptions
    /\ slotListeners' = [slotListeners EXCEPT ![s] = Append(@, listener)]
    /\ notified' = <<>>
    /\ lastOp' = SlotOp("subscribeSlot", s, listener)
    /\ UNCHANGED <<state, keypair, urlCount, listeners, slots>>
    /\ UNCHANGED screenVars
    /\ UNCHANGED probe

\* the function a wallet-store subscribe returned for listener is called
UnsubscribeSlot(s, listener) ==
    /\ \E i \in 1..Len(slotListeners[s]) : slotListeners[s][i] = listener
    /\ slotListeners' = [slotListeners EXCEPT ![s] = FilterOut(@, listener)]
    /\ notified' = <<>>
    /\ lastOp' = SlotOp("unsubscribeSlot", s, listener)
    /\ UNCHANGED <<state, keypair, urlCount, listeners, slots>>
    /\ UNCHANGED screenVars
    /\ UNCHANGED probe

\* getActiveWallet / getLocalKeypair / getSolflareBoxKeypair /
\* getPhantomBoxKeypair ()
GetSlot(s) == slots[s]

\* a setter that walks one listener list shared by the four slots
SetSlot_NotifiesEverySlot(s, next) ==
    /\ slots' = [slots EXCEPT ![s] = next]
    /\ notified' = emit(slotListeners["activeWallet"] \o slotListeners["localKeypair"]
                          \o slotListeners["solflareBoxKeypair"]
                          \o slotListeners["phantomBoxKeypair"], slots'[s])
    /\ lastOp' = SlotOp("setSlot", s, "none")
    /\ UNCHANGED <<state, keypair, urlCount, listeners, slotListeners>>
    /\ UNCHANGED screenVars
    /\ UNCHANGED probe

\* setActiveWallet / setLocalKeypair / setSolflareBoxKeypair /
\* setPhantomBoxKeypair (next)
SetSlot(s, next) ==
    /\ slots' = [slots EXCEPT ![s] = next]
    /\ notified' = emit(slotListeners[s], slots'[s])
    /\ lastOp' = SlotOp("setSlot", s, "none")
    /\ UNCHANGED <<state, keypair, urlCount, listeners, slotListeners>>
    /\ UNCHANGED screenVars
    /\ UNCHANGED probe

NextWalletStore ==
    \/ \E s \in Slots : \E l \in SlotListenerIds : SubscribeSlot(s, l)
    \/ \E s \in Slots : \E l \in SlotListenerIds : UnsubscribeSlot(s, l)
    \/ \E s \in Slots : \E next \in SlotValues(s) : SetSlot(s, next)
    \/ \E p \in Providers :
          TotalSubscriptions < MaxSubscriptions /\ Subscribe(p, "index")
    \/ \E p \in Providers : Unsubscribe(p, "index")
    \/ \E p \in Providers : Reset(p)

SpecWalletStore == Init /\ [][NextWalletStore]_vars

(***************************************************************************)
(* The route screens (app/phantom-connect.tsx, app/solflare-connect.tsx):  *)
(* each hands the URL it was opened with to its provider's handler.        *)
(***************************************************************************)

\* URLs handled by the route screens in one run
MaxRouted == 3

\* a query value that is not base58 ('0', 'O', 'I', 'l' are not in the alphabet)
BadBase58 == <<"raw", "0OIl">>

\* a decrypted plaintext that is not JSON
PlainText == <<"text", "hello">>

\* decrypted payload JSON that carries a session alone
SessionOnlyResponse == [session |-> "Tok2"]

\* the URLs a route screen of provider p can be opened with: error redirects
\* (bare, and carrying a whole connect reply), replies, a reply under
\* `payload`, a reply under both `data` and `payload`, a reply whose key is
\* under the other provider's name, replies lacking a parameter or with an
\* undecodable one, a reply that is not JSON, a reply for another keypair
RouteUrls(p) ==
    LET reply(pl) == PayloadUrl(p, DappKey(p, 1), Kw1, WalletNonce, pl)
        connect == reply(ConnectResponse)
        key == EncryptionKeyParam(p)
    IN {ErrorUrl(p, <<"4001">>, None),
        [connect EXCEPT !.errorCode = <<"4001">>, !.errorMessage = <<"busy">>],
        connect,
        reply(SignResponse),
        reply(SessionOnlyResponse),
        [connect EXCEPT !.payload = connect.data, !.data = None],
        [reply(SignResponse) EXCEPT !.payload = connect.data],
        [connect EXCEPT ![key] = None,
                        ![EncryptionKeyParam(Other(p))] = connect[key]],
        [connect EXCEPT !.nonce = None],
        [connect EXCEPT !.data = BadBase58],
        [connect EXCEPT !.nonce = BadBase58],
        [connect EXCEPT ![key] = BadBase58],
        [connect EXCEPT !.data = bs58encode(boxAfter(PlainText, WalletNonce,
                                              boxBefore(DappKey(p, 1), Kw1)))],
        PayloadUrl(p, DappKey(p, 2), Kw1, WalletNonce, ConnectResponse)}

\* PhantomConnectScreen / SolflareConnectScreen: the effect rebuilds the URL
\* from the route parameters and calls the provider's handler
ConnectScreen(p, url) ==
    /\ urlCount < MaxRouted
    /\ urlCount' = urlCount + 1
    /\ state' = [state EXCEPT ![p] = handleCallbackUrl(p, @, keypair[p], url)]
    /\ notified' = emit(listeners[p], state'[p])
    /\ lastOp' = Op("route", p)
    /\ UNCHANGED <<keypair, listeners>>
    /\ UNCHANGED screenVars
    /\ UNCHANGED probe
    /\ UNCHANGED walletStoreVars

NextRoute ==
    \/ \E p \in Providers : Subscribe(p, "index")
    \/ \E p \in Providers : \E kp \in {None, DappKey(p, 1)} : SetKeypair(p, kp)
    \/ \E p \in Providers : \E url \in RouteUrls(p) : ConnectScreen(p, url)

SpecRoute == Init /\ [][NextRoute]_vars

(***************************************************************************)
(* encryptPayload of the screens against decryptPayload of the callback    *)
(* modules: one party seals a payload for another, a party opens it.       *)
(***************************************************************************)

\* the keypairs of the parties
PartyKeys == {DappKey(p, i) : p \in Providers, i \in 1..MaxKeys} \cup WalletKeys

\* the payload of a sign request
SignRequest == [session |-> "Tok1", transaction |-> "tx"]

\* the payloads that are sealed
SealedPayloads == Payloads \cup {SignRequest}

InitCrypto ==
    /\ state = [p \in Providers |-> initialState(p)]
    /\ keypair = [p \in Providers |-> None]
    /\ keypairRef = [p \in Providers |-> None]
    /\ screenState = [p \in Providers |-> initialState(p)]
    /\ activeWallet = WALLET_SOLFLARE
    /\ connecting = "none"
    /\ signOp = IdleSignOp
    /\ lastSignUrl = None
    /\ keyCount = [p \in Providers |-> 0]
    /\ urlCount = 0
    /\ opened = [p \in Providers |-> {}]
    /\ requestsOut = [p \in Providers |-> 0]
    /\ listeners = [p \in Providers |-> <<>>]
    /\ notified = <<>>
    /\ slots = InitialSlots
    /\ slotListeners = [s \in Slots |-> <<>>]
    /\ \E p \in Providers, pl \in SealedPayloads, a \in PartyKeys :
          \E b \in PartyKeys \ {a} :
             probe = [pc |-> "input", module |-> p, payload |-> pl,
                      sender |-> a, receiver |-> b]
    /\ lastOp = [op |-> "init", p |-> "none",
                 from |-> [q \in Providers |-> "NotConnected"]]

\* the sender calls encryptPayload(payload, receiver's public key, own keypair)
Seal ==
    /\ probe.pc = "input"
    /\ LET enc == encryptPayload(probe.payload, bs58encode(probe.receiver),
                                 probe.sender)
       IN probe' = [pc |-> "sealed", module |-> probe.module,
                    payload |-> probe.payload, sender |-> probe.sender,
                    receiver |-> probe.receiver, data |-> enc.data,
                    nonce |-> enc.nonce, dappPublicKey |-> enc.dappPublicKey]
    /\ lastOp' = Op("seal", probe.module)
    /\ UNCHANGED <<state, keypair, urlCount>>
    /\ UNCHANGED screenVars
    /\ UNCHANGED storeVars
    /\ UNCHANGED walletStoreVars

\* the party holding keypair kp calls the module's decryptPayload(data, nonce,
\* sender's public key)
Open(kp) ==
    /\ probe.pc = "sealed"
    /\ LET r == IF probe.module = WALLET_PHANTOM
                THEN decryptPayload(kp, probe.data, probe.nonce,
                                    probe.dappPublicKey)
                ELSE decryptPayloadSolflare(kp, probe.data, probe.nonce,
                                            probe.dappPublicKey)
       IN probe' = [pc |-> "opened", module |-> probe.module,
                    payload |-> probe.payload, sender |-> probe.sender,
                    receiver |-> probe.receiver, opener |-> kp, result |-> r]
    /\ lastOp' = Op("open", probe.module)
    /\ UNCHANGED <<state, keypair, urlCount>>
    /\ UNCHANGED screenVars
    /\ UNCHANGED storeVars
    /\ UNCHANGED walletStoreVars

NextCrypto ==
    \/ Seal
    \/ \E kp \in PartyKeys : Open(kp)

SpecCrypto == InitCrypto /\ [][NextCrypto]_vars

(***************************************************************************)
(* Properties                                                              *)
(***************************************************************************)

\* the wallet's encryption public key held in provider p's session state
RemotePublicKey(p) == GetB58(state[p], EncryptionPublicKeyField(p))

\* walletAddress, sessionToken, remotePublicKey, lastSignature of provider p
SessionFields(p) ==
    <<state[p].publicKey, state[p].session, RemotePublicKey(p),
      Get(state[p], "signature")>>

\* the URL the handler of provider p handled last
LastUrl(p) == state[p].lastUrl[1]

\* a redirect was just handled by the handlers
UrlHandled == lastOp.op = "url"

\* the redirect carrying plain, encrypted by the wallet for dapp key kd
WalletReply(p, kd, plain) == PayloadUrl(p, kd, Kw1, WalletNonce, plain)

\* C1: a signAndSendTransaction URL is built only while the provider's session
\* state holds both sessionToken and remotePublicKey and the keypair used to
\* encrypt is the live keypair of the callback module, in every interleaving.
C1_SignOnlyWithLiveSession ==
    lastOp.op = "signBuild" =>
        LET p == lastOp.p IN
        /\ state[p].session # Null
        /\ RemotePublicKey(p) # None
        /\ keypair[p] # None
        /\ lastSignUrl[1].dapp_encryption_public_key = bs58encode(keypair[p])

\* C2: after connect() ran twice (keypair K1, then K2), a payload callback
\* encrypted for K1 fails decryption and leaves publicKey and session as
\* they were.
C2_StaleKeypairCallbackRejected ==
    [][\A p \in Providers : \A i \in 1..MaxKeys : \A pl \in Payloads :
          (/\ i < keyCount[p]
           /\ keypair[p] = DappKey(p, keyCount[p])
           /\ LinkingUrl(WalletReply(p, DappKey(p, i), pl)))
          => /\ state'[p].error = <<"Unable to decrypt payload">>
             /\ state'[p].publicKey = state[p].publicKey
             /\ state'[p].session = state[p].session]_vars

\* C2 witness: the reply to the first connect was handled after the second
\* connect and changed nothing but the error.
C2_Witness ==
    \E p \in Providers :
        /\ keyCount[p] = 2
        /\ keypair[p] = DappKey(p, 2)
        /\ UrlHandled
        /\ state[p].lastUrl = <<WalletReply(p, DappKey(p, 1), ConnectResponse)>>
        /\ state[p].error = <<"Unable to decrypt payload">>
        /\ state[p].publicKey = Null
        /\ state[p].session = Null

\* C3: for each provider, once the connect response {public_key: Addr1,
\* session: Tok1} encrypted under (live dapp key, Kw1) is handled, the state
\* is Connected with walletAddress Addr1, sessionToken Tok1 and
\* remotePublicKey Kw1.
C3_ConnectResponsePopulatesAll ==
    \A p \in Providers :
        (/\ UrlHandled
         /\ keypair[p] # None
         /\ state[p].lastUrl = <<WalletReply(p, keypair[p], ConnectResponse)>>)
        => /\ Status(p) = "Connected"
           /\ state[p].publicKey = "Addr1"
           /\ state[p].session = "Tok1"
           /\ RemotePublicKey(p) = bs58encode(Kw1)

\* C4: in every reachable state remotePublicKey and sessionToken of a provider
\* are both present or both absent.
C4_RemoteKeyAndSessionTogether ==
    \A p \in Providers : (RemotePublicKey(p) # None) <=> (state[p].session # Null)

\* a step of connect, disconnect or the signing flow of provider p
ActionOn(p) ==
    /\ lastOp'.op \in {"connect", "connectOpened", "connectFailed", "disconnect",
                       "signStart", "signThrow", "signBuild", "signReturn"}
    /\ lastOp'.p = p

\* a step that handles a redirect addressed to provider p
UrlAddressedTo(p) ==
    /\ lastOp'.op = "url"
    /\ state'[p].lastUrl[1].path = RedirectLink(p)

\* C5: disconnect() leaves the provider Disconnected with walletAddress,
\* sessionToken, remotePublicKey, lastSignature and lastError cleared and the
\* callback module's keypair cleared; lastUrl alone is preserved.
C5_DisconnectClearsSession ==
    [][\A p \in Providers :
          (lastOp'.op = "disconnect" /\ lastOp'.p = p)
          => /\ state'[p] = [initialState(p) EXCEPT !.lastUrl = state[p].lastUrl]
             /\ SessionFields(p)' = <<Null, Null, None, Null>>
             /\ state'[p].error = None
             /\ keypair'[p] = None
             /\ Status(p)' = "NotConnected"
             /\ screenState'[p] = state'[p]]_vars

\* C5 witness: disconnect() ran from Error on a session that had an address,
\* a token and a handled redirect, and all but lastUrl is gone.
C5_Witness ==
    /\ lastOp.op = "disconnect"
    /\ lastOp.from[lastOp.p] = "Error"
    /\ state[lastOp.p].lastUrl # None
    /\ IsErrorUrl(LastUrl(lastOp.p))
    /\ state[lastOp.p].error = None
    /\ state[lastOp.p].session = Null
    /\ keypair[lastOp.p] = None

\* C6: no redirect addressed to one provider and no connect, disconnect or
\* sign step of one provider changes the other provider's walletAddress,
\* sessionToken, remotePublicKey, lastSignature, lastError or keypair.
C6_ProvidersDoNotInterfere ==
    [][\A p \in Providers :
          (ActionOn(p) \/ UrlAddressedTo(p))
          => /\ SessionFields(Other(p))' = SessionFields(Other(p))
             /\ state'[Other(p)].error = state[Other(p)].error
             /\ keypair'[Other(p)] = keypair[Other(p)]]_vars

\* the error text provider p's handler records for an error redirect
ErrorTextOf(p, errorCode, errorMessage) ==
    IF p = WALLET_PHANTOM THEN PhantomErrorText(errorCode, errorMessage)
    ELSE SolflareErrorText(errorCode, errorMessage)

\* the texts provider p's handler records for error codes other than
\* userRejectedRequest
OtherErrorTexts(p) ==
    {ErrorTextOf(p, e[1], e[2]) :
        e \in {x \in ErrorParams : x[1] # <<"userRejectedRequest">>}}

\* C7: for each provider a redirect with errorCode userRejectedRequest puts
\* the session in Error with a text that no other errorCode produces, and
\* leaves walletAddress, sessionToken, remotePublicKey and lastSignature as
\* they were.
C7_UserRejectionDistinct ==
    [][\A p \in Providers :
          (/\ UrlAddressedTo(p)
           /\ state'[p].lastUrl[1].errorCode = <<"userRejectedRequest">>)
          => /\ Status(p)' = "Error"
             /\ state'[p].error \notin OtherErrorTexts(p)
             /\ SessionFields(p)' = SessionFields(p)]_vars

\* url has no errorCode and lacks a field provider p's handler requires
MissingField(p, url) ==
    /\ url.errorCode = None
    /\ \/ url.nonce = None
       \/ url[EncryptionKeyParam(p)] = None
       \/ IF p = WALLET_PHANTOM THEN url.data = None /\ url.payload = None
          ELSE url.data = None

\* C8 (as stated): a redirect without errorCode that lacks nonce, data/payload
\* or the provider's encryption public key leaves the provider state
\* unchanged and records no error, in every state.
C8_MissingFieldNoOp ==
    [][\A p \in Providers :
          (lastOp'.op = "url" /\ MissingField(p, state'[p].lastUrl[1]))
          => state'[p] = state[p]]_vars

\* C8 (amended): such a redirect changes nothing of the provider state but
\* lastUrl, which becomes the redirect; no error is recorded or cleared and
\* the callback module's keypair stays.
C8_MissingFieldOnlyLastUrl ==
    [][\A p \in Providers :
          (lastOp'.op = "url" /\ MissingField(p, state'[p].lastUrl[1]))
          => /\ state'[p] = [state[p] EXCEPT !.lastUrl = state'[p].lastUrl]
             /\ state'[p].error = state[p].error
             /\ keypair'[p] = keypair[p]]_vars

\* C8 witness: while a sign request is out, a redirect addressed to the
\* signing provider without a required field was handled and the session is
\* still there without an error.
C8_Witness ==
    /\ lastOp.op = "url"
    /\ signOp.pc = "opening"
    /\ \E p \in Providers :
          /\ signOp.wallet = p
          /\ LastUrl(p).path = RedirectLink(p)
          /\ MissingField(p, LastUrl(p))
          /\ state[p].publicKey = "Addr1"
          /\ state[p].session = "Tok1"
          /\ state[p].error = None

\* C9: after disconnect(), a well-formed payload redirect of an attempt whose
\* URL had reached the wallet changes no session field and does not set the
\* error shown to the user.
C9_LateCallbackIgnored ==
    [][\A p \in Providers : \A i \in 1..MaxKeys : \A pl \in Payloads :
          (/\ keypair[p] = None
           /\ i \in opened[p]
           /\ LinkingUrl(WalletReply(p, DappKey(p, i), pl)))
          => /\ SessionFields(p)' = SessionFields(p)
             /\ state'[p].error = state[p].error]_vars

\* C10: once a payload redirect failed decryption while no address was held,
\* no later redirect makes the session Connected before a new connect().
C10_DecryptFailureFatal ==
    [][\A p \in Providers :
          (/\ state[p].error = <<"Unable to decrypt payload">>
           /\ state[p].publicKey = Null
           /\ lastOp'.op = "url")
          => Status(p)' # "Connected"]_vars

\* C11: while a provider state holds a remotePublicKey, a payload redirect
\* whose encryption public key differs from it is not accepted: it is reported
\* as an error and walletAddress, sessionToken, remotePublicKey and
\* lastSignature are not overwritten.
C11_ForeignRemoteKeyRejected ==
    [][\A p \in Providers :
          (/\ lastOp'.op = "url"
           /\ RemotePublicKey(p) # None
           /\ IsPayloadUrlFor(p, state'[p].lastUrl[1])
           /\ state'[p].lastUrl[1][EncryptionKeyParam(p)] # RemotePublicKey(p))
          => /\ SessionFields(p)' = SessionFields(p)
             /\ state'[p].error # None]_vars

\* C12: at most one request is outstanding per provider session: a connect
\* or sign request issued while another is unanswered is rejected or
\* supersedes it, so the wallet never holds two requests of one session whose
\* responses would both be accepted.
C12_AtMostOneOutstanding ==
    \A p \in Providers : requestsOut[p] <= 1

\* C13: every operation that changes a provider store's state (handling a
\* callback URL, reset) calls each subscribed listener once per subscription,
\* in subscription order, with the state the operation left; the other
\* operations call none.
C13_ListenersNotifiedInOrder ==
    [][\A p \in Providers :
          lastOp'.p = p =>
             IF lastOp'.op \in {"handle", "reset"}
             THEN /\ Len(notified') = Len(listeners[p])
                  /\ \A i \in 1..Len(listeners[p]) :
                        /\ notified'[i].listener = listeners[p][i]
                        /\ notified'[i].next = state'[p]
             ELSE /\ notified' = <<>>
                  /\ state' = state]_vars

\* C13 witness: a decrypted connect response was delivered to two
\* subscribers, first subscribed first.
C13_Witness ==
    /\ lastOp.op = "handle"
    /\ \E p \in Providers :
          /\ lastOp.p = p
          /\ listeners[p] = <<"wallet", "index">>
          /\ state[p].publicKey = "Addr1"
          /\ notified = <<[listener |-> "wallet", next |-> state[p]],
                          [listener |-> "index", next |-> state[p]]>>

\* what provider p's decryptPayload makes of payload redirect url under kp
DecryptResult(p, kp, url) ==
    IF p = WALLET_PHANTOM
    THEN decryptPayload(kp, IF url.data # None THEN url.data ELSE url.payload,
                        url.nonce, url.phantom_encryption_public_key)
    ELSE decryptPayloadSolflare(kp, url.data, url.nonce,
                                url.solflare_encryption_public_key)

\* the step is a failure of provider p: an error redirect or a payload that
\* does not decrypt handled by p's handler, opening the connect URL failed,
\* or a sign request found no session
FailureOf(p) ==
    \/ /\ lastOp'.op = "url"
       /\ LET url == state'[p].lastUrl[1] IN
             \/ IsErrorUrl(url)
             \/ IsPayloadUrlFor(p, url) /\ ~DecryptResult(p, keypair[p], url).ok
    \/ /\ lastOp'.op \in {"connectFailed", "signThrow"}
       /\ lastOp'.p = p

\* C14: every failure (user cancellation, provider error, decryption
\* failure, sign request without a session, failure to open the wallet URL)
\* is recorded in the provider store's error and delivered to the screen's
\* subscription.
C14_FailuresRecordedInStore ==
    [][\A p \in Providers :
          FailureOf(p) => /\ state'[p].error # None
                          /\ screenState'[p] = state'[p]]_vars

C16_NoSignUrlInError ==
    [][\A p \in Providers :
          (lastOp'.op = "signBuild" /\ lastOp'.p = p) => Status(p) # "Error"]_vars

\* C17: building a sign URL installs no keypair; its
\* dapp_encryption_public_key is the key of the provider's most recent
\* connect, its envelope is encrypted under the shared secret of that keypair
\* and the remotePublicKey the provider state holds, and the envelope's
\* session is the sessionToken the provider state holds.
C17_SignUsesConnectKeypair ==
    [][\A p \in Providers :
          (lastOp'.op = "signBuild" /\ lastOp'.p = p)
          => LET url == lastSignUrl'[1]
                 kd == DappKey(p, keyCount[p])
                 box == decodeBase58(url.data)
             IN /\ keypair' = keypair /\ keypairRef' = keypairRef
                /\ keyCount' = keyCount
                /\ url.dapp_encryption_public_key = bs58encode(kd)
                /\ RemotePublicKey(p) # None
                /\ box[1] = boxBefore(decodeBase58(RemotePublicKey(p)), kd)
                /\ JSONparse(box[3]).session = state[p].session]_vars

\* C18: for each provider, a sign response {signature: Sig1} that decrypts
\* under the live keypair while an address and a session are held sets
\* lastSignature to Sig1, leaves the session Connected and leaves
\* walletAddress and sessionToken as they were.
C18_SignResponseSetsSignature ==
    [][\A p \in Providers :
          (/\ keypair[p] # None
           /\ state[p].publicKey # Null
           /\ state[p].session # Null
           /\ LinkingUrl(WalletReply(p, keypair[p], SignResponse)))
          => /\ Get(state'[p], "signature") = "Sig1"
             /\ Status(p)' = "Connected"
             /\ state'[p].publicKey = state[p].publicKey
             /\ state'[p].session = state[p].session]_vars

\* C19: in every reachable state the screen's keypair reference and the
\* callback module's keypair of a provider agree (both cleared, or both the
\* keypair of the latest connect), so no replaced or disconnected keypair is
\* still held.
C19_KeypairCopiesAgree ==
    \A p \in Providers : keypairRef[p] = keypair[p]

\* the box of payload redirect url was made under the shared secret of kp
\* and the key the redirect names, with the nonce the redirect names
Authentic(p, url, kp) ==
    LET box == decodeBase58(IF p = WALLET_PHANTOM /\ url.data = None
                            THEN url.payload ELSE url.data)
    IN /\ box[1] = boxBefore(decodeBase58(url[EncryptionKeyParam(p)]), kp)
       /\ box[2] = decodeBase58(url.nonce)

\* C20: while a provider has a live keypair, a payload redirect whose box was
\* made under another shared secret or with another nonce is recorded as
\* 'Unable to decrypt payload' and changes none of walletAddress,
\* sessionToken, remotePublicKey, lastSignature.
C20_ForgedPayloadRejected ==
    [][\A p \in Providers :
          (/\ lastOp'.op = "url"
           /\ keypair[p] # None
           /\ IsPayloadUrlFor(p, state'[p].lastUrl[1])
           /\ ~Authentic(p, state'[p].lastUrl[1], keypair[p]))
          => /\ state'[p].error = <<"Unable to decrypt payload">>
             /\ SessionFields(p)' = SessionFields(p)]_vars

\* C20 witness: a Connected provider handled a reply for its live keypair
\* whose nonce parameter was replaced; the session is kept and the error set.
C20_Witness ==
    /\ lastOp.op = "url"
    /\ \E p \in Providers :
          /\ keypair[p] # None
          /\ state[p].lastUrl =
                <<[WalletReply(p, keypair[p], ConnectResponse)
                      EXCEPT !.nonce = bs58encode(ForgedNonce)]>>
          /\ state[p].publicKey = "Addr1"
          /\ state[p].session = "Tok1"
          /\ state[p].error = <<"Unable to decrypt payload">>

\* C21: a payload sealed by encryptPayload under (sender's secret key,
\* receiver's public key) and opened by decryptPayload under (receiver's
\* secret key, sender's public key) comes back as the original payload.
C21_EncryptDecryptRoundTrip ==
    (probe.pc = "opened" /\ probe.opener = probe.receiver)
    => probe.result = Return(probe.payload)

\* C21 witness: a sign request sealed by a dapp keypair for the wallet key
\* was opened with the wallet's keypair.
C21_Witness ==
    /\ probe.pc = "opened"
    /\ probe.payload = SignRequest
    /\ probe.sender = DappKey(WALLET_PHANTOM, 1)
    /\ probe.receiver = Kw1
    /\ probe.opener = Kw1
    /\ probe.result.ok
    /\ probe.result.value = SignRequest

\* a request of provider p is with the wallet and unanswered
Pending(p) == requestsOut[p] > 0

\* Connecting: the connect request is out and no address is held
Connecting(p) == Pending(p) /\ screenState[p].publicKey = Null

\* AwaitingSignature: a sign request is out while an address is held
AwaitingSignature(p) == Pending(p) /\ screenState[p].publicKey # Null

\* a step of p's session that is neither a callback nor connect / disconnect
\* of p keeps the request pending and the provider state as it is
StaysPending(p) ==
    (/\ Pending(p)
     /\ lastOp'.op # "url"
     /\ ~(lastOp'.op \in {"connect", "connectFailed", "disconnect"} /\ lastOp'.p = p))
    => /\ Pending(p)'
       /\ state'[p] = state[p]

\* the wallet's connect reply for the live keypair makes the session Connected
ValidReplyConnects(p) ==
    (/\ Connecting(p)
     /\ keypair[p] # None
     /\ LinkingUrl(WalletReply(p, keypair[p], ConnectResponse)))
    => Status(p)' = "Connected"

Routed(p) == lastOp'.op = "route" /\ lastOp'.p = p

\* the URL the step handed to provider p's handler
RoutedUrl(p) == state'[p].lastUrl[1]

\* C23: a callback that carries an errorCode is handled as an error and not
\* decrypted: even when it also carries data, nonce and the provider's
\* encryption public key, the session fields stay as they were and only the
\* error and lastUrl change.
C23_ErrorCodeNeverDecrypted ==
    [][\A p \in Providers :
          (Routed(p) /\ RoutedUrl(p).errorCode # None)
          => /\ SessionFields(p)' = SessionFields(p)
             /\ state'[p].error # None
             /\ state'[p].error # <<"Unable to decrypt payload">>
             /\ state'[p].error # <<"Missing keypair">>]_vars

\* C23 witness: with the keypair of the connect attempt installed and no
\* address held, an error redirect that carries the whole connect reply was
\* handled and left the provider without address and with an error.
C23_Witness ==
    /\ lastOp.op = "route"
    /\ \E p \in Providers :
          /\ lastOp.p = p
          /\ keypair[p] = DappKey(p, 1)
          /\ LastUrl(p).errorCode # None
          /\ [LastUrl(p) EXCEPT !.errorCode = None, !.errorMessage = None]
                = WalletReply(p, DappKey(p, 1), ConnectResponse)
          /\ state[p].publicKey = Null
          /\ state[p].error # None

\* the payload fields of a decrypted JSON are in the state of provider p
\* (signature is kept by the Phantom state alone)
Stored(p, st, plain) ==
    /\ "public_key" \in DOMAIN plain => st.publicKey = plain.public_key
    /\ "session" \in DOMAIN plain => st.session = plain.session
    /\ ("signature" \in DOMAIN plain /\ p = WALLET_PHANTOM)
       => st.signature = plain.signature

\* C24: the Phantom handler reads the ciphertext from `data`, from `payload`
\* only when `data` is absent, and the key from
\* phantom_encryption_public_key; the Solflare handler reads `data` and
\* solflare_encryption_public_key only.  A callback without errorCode in
\* which one of these or the nonce is absent changes no session field and no
\* error; otherwise the handler acts on exactly these values.
C24_FieldRecognition ==
    [][\A p \in Providers :
          (Routed(p) /\ RoutedUrl(p).errorCode = None)
          => LET url == RoutedUrl(p)
                 ciphertext == IF p = WALLET_PHANTOM /\ url.data = None
                               THEN url.payload ELSE url.data
                 key == IF p = WALLET_PHANTOM
                        THEN url.phantom_encryption_public_key
                        ELSE url.solflare_encryption_public_key
             IN IF ciphertext = None \/ url.nonce = None \/ key = None
                THEN /\ SessionFields(p)' = SessionFields(p)
                     /\ state'[p].error = state[p].error
                ELSE /\ keypair[p] = None
                        => state'[p].error = <<"Missing keypair">>
                     /\ (/\ keypair[p] # None
                         /\ IsBase58(ciphertext) /\ IsBase58(url.nonce)
                         /\ IsBase58(key)
                         /\ decodeBase58(ciphertext)[1] = {decodeBase58(key), keypair[p]}
                         /\ decodeBase58(ciphertext)[2] = decodeBase58(url.nonce)
                         /\ IsJSON(decodeBase58(ciphertext)[3]))
                        => /\ state'[p].error = None
                           /\ Stored(p, state'[p],
                                     JSONparse(decodeBase58(ciphertext)[3]))]_vars

\* C24 witness: Phantom took a connect reply from `payload`, and Solflare,
\* holding its keypair, was handed a reply whose key is under Phantom's name.
C24_Witness ==
    /\ lastOp.op = "route"
    /\ lastOp.p = WALLET_SOLFLARE
    /\ state[WALLET_PHANTOM].lastUrl # None
    /\ LastUrl(WALLET_PHANTOM).data = None
    /\ LastUrl(WALLET_PHANTOM).payload # None
    /\ state[WALLET_PHANTOM].publicKey = "Addr1"
    /\ state[WALLET_PHANTOM].error = None
    /\ keypair[WALLET_SOLFLARE] = DappKey(WALLET_SOLFLARE, 1)
    /\ LastUrl(WALLET_SOLFLARE).phantom_encryption_public_key # None
    /\ LastUrl(WALLET_SOLFLARE).solflare_encryption_public_key = None
    /\ LastUrl(WALLET_SOLFLARE).data # None
    /\ state[WALLET_SOLFLARE].publicKey = Null
    /\ state[WALLET_SOLFLARE].error = None

\* C25: the signature sendTxWithActiveWallet returns for a deep-link sign
\* request, shown as that transaction's Tx, is never a signature the provider
\* state already held when the request was started.
C25_ReturnedSignatureAnswersRequest ==
    [][lastOp'.op = "signReturn"
          => LET heldAtStart == signOp.signature
             IN SignReturnValue # Null => SignReturnValue # heldAtStart]_vars

\* C26: with the keypair unchanged, handing the URL a handler has just
\* handled to the same handler again leaves the provider state as it is.
C26_HandlingIdempotent ==
    [][\A p \in Providers :
          Routed(p)
          => handleCallbackUrl(p, state'[p], keypair'[p], RoutedUrl(p)) = state'[p]]_vars

\* C26 witness: a connect reply for the installed keypair was handled twice
\* in a row by the provider's handler, which holds the reply's address and
\* session.
C26_Witness ==
    /\ lastOp.op = "route"
    /\ urlCount = 2
    /\ \E p \in Providers :
          /\ lastOp.p = p
          /\ lastOp.from[p] = "Connected"
          /\ keypair[p] = DappKey(p, 1)
          /\ LastUrl(p) = WalletReply(p, DappKey(p, 1), ConnectResponse)
          /\ state[p].publicKey = "Addr1"
          /\ state[p].session = "Tok1"
          /\ state[p].error = None
          /\ state[Other(p)].lastUrl = None

\* the URL carries the three envelope fields provider p's handler reads,
\* and no errorCode
HasEnvelope(p, url) ==
    /\ url.errorCode = None
    /\ (IF p = WALLET_PHANTOM /\ url.data = None THEN url.payload ELSE url.data) # None
    /\ url.nonce # None
    /\ url[EncryptionKeyParam(p)] # None

\* the ciphertext, nonce and key provider p's handler reads from the URL
Envelope(p, url) ==
    <<IF p = WALLET_PHANTOM /\ url.data = None THEN url.payload ELSE url.data,
      url.nonce, url[EncryptionKeyParam(p)]>>

\* C27: for a callback whose three envelope fields are present the handlers
\* do not throw: a missing keypair, an undecodable base58 field, a box that
\* does not authenticate and a plaintext that is not JSON each end with the
\* thrown message as the state's error, the session fields as they were, and
\* the subscribers notified with the resulting state.
C27_FailuresCaughtAndRecorded ==
    [][\A p \in Providers :
          (Routed(p) /\ HasEnvelope(p, RoutedUrl(p)))
          => LET e == Envelope(p, RoutedUrl(p))
                 decodable == IsBase58(e[1]) /\ IsBase58(e[2]) /\ IsBase58(e[3])
                 authentic ==
                     /\ decodeBase58(e[1])[1] = {decodeBase58(e[3]), keypair[p]}
                     /\ decodeBase58(e[1])[2] = decodeBase58(e[2])
                 failure ==
                     IF keypair[p] = None THEN <<"Missing keypair">>
                     ELSE IF ~decodable THEN DecodeErrorText
                     ELSE IF ~authentic THEN <<"Unable to decrypt payload">>
                     ELSE IF ~IsJSON(decodeBase58(e[1])[3]) THEN ParseErrorText
                     ELSE None
             IN /\ state'[p].error = failure
                /\ failure # None => SessionFields(p)' = SessionFields(p)
                /\ Len(notified') = Len(listeners[p])
                /\ \A i \in 1..Len(listeners[p]) :
                      notified'[i] = [listener |-> listeners[p][i],
                                      next |-> state'[p]]]_vars

\* C27 witness: a subscriber of a provider that holds an address was told
\* about a reply that decrypted to something that is not JSON.
C27_Witness ==
    /\ lastOp.op = "route"
    /\ \E p \in Providers :
          /\ lastOp.p = p
          /\ state[p].error = ParseErrorText
          /\ state[p].publicKey = "Addr1"
          /\ notified = <<[listener |-> "index", next |-> state[p]]>>

\* C28: lastUrl of each provider is null until a callback is handled; the
\* step that hands a URL to the handlers makes it that URL, whatever the
\* outcome (payload, error, missing field); no other step (connect,
\* disconnect, the resets they call, the signing flow) changes it.
C28_LastUrlIsLatestCallback ==
    /\ [](urlCount = 0 => \A p \in Providers : state[p].lastUrl = None)
    /\ [][\A p \in Providers :
             /\ \A url \in Urls : LinkingUrl(url) => state'[p].lastUrl = <<url>>
             /\ lastOp'.op # "url" => state'[p].lastUrl = state[p].lastUrl]_vars

\* C28 witness: after disconnect() reset a provider that had handled an error
\* redirect and then the connect reply, lastUrl is still the connect reply.
C28_Witness ==
    /\ lastOp.op = "disconnect"
    /\ urlCount = 2
    /\ \E p \in Providers :
          /\ lastOp.p = p
          /\ state[p].publicKey = Null
          /\ state[p].lastUrl = <<WalletReply(p, DappKey(p, 1), ConnectResponse)>>

\* the step decrypted the payload of the URL handed to provider p's handler
Decrypted(p) ==
    /\ Routed(p)
    /\ HasEnvelope(p, RoutedUrl(p))
    /\ keypair[p] # None
    /\ LET e == Envelope(p, RoutedUrl(p)) IN
          /\ IsBase58(e[1]) /\ IsBase58(e[2]) /\ IsBase58(e[3])
          /\ decodeBase58(e[1])[1] = {decodeBase58(e[3]), keypair[p]}
          /\ decodeBase58(e[1])[2] = decodeBase58(e[2])
          /\ IsJSON(decodeBase58(e[1])[3])

\* the JSON the step decrypted
DecryptedJSON(p) == JSONparse(decodeBase58(Envelope(p, RoutedUrl(p))[1])[3])

\* C29: after a step that decrypted a payload the provider state's error is
\* null whatever it was before, and each of publicKey, session and signature
\* whose field (public_key, session, signature) the JSON does not carry keeps
\* the value it had.
C29_SuccessClearsErrorKeepsAbsent ==
    [][\A p \in Providers :
          Decrypted(p)
          => /\ state'[p].error = None
             /\ "public_key" \notin DOMAIN DecryptedJSON(p)
                => state'[p].publicKey = state[p].publicKey
             /\ "session" \notin DOMAIN DecryptedJSON(p)
                => state'[p].session = state[p].session
             /\ "signature" \notin DOMAIN DecryptedJSON(p)
                => Get(state'[p], "signature") = Get(state[p], "signature")]_vars

\* C29 witness: Phantom, holding the address and session of a connect reply
\* and then an error, handled a sign response: the error is gone, address and
\* session are kept, the signature is set.
C29_Witness ==
    /\ lastOp.op = "route"
    /\ lastOp.p = WALLET_PHANTOM
    /\ lastOp.from[WALLET_PHANTOM] = "Error"
    /\ LastUrl(WALLET_PHANTOM)
          = WalletReply(WALLET_PHANTOM, DappKey(WALLET_PHANTOM, 1), SignResponse)
    /\ state[WALLET_PHANTOM].error = None
    /\ state[WALLET_PHANTOM].publicKey = "Addr1"
    /\ state[WALLET_PHANTOM].session = "Tok1"
    /\ state[WALLET_PHANTOM].signature = "Sig1"

\* the elements of a sequence
Range(seq) == {seq[i] : i \in 1..Len(seq)}

\* after is before with every subscription of listener removed and the
\* other subscriptions in their order
RemovedFrom(before, after, listener) ==
    /\ listener \notin Range(after)
    /\ after = SelectSeq(before, LAMBDA item : item # listener)

\* C30: calling the unsubscribe a subscribe call returned removes every
\* subscription of that listener function from the store's list and keeps the
\* other listeners in their order; a listener enters a list by a subscribe
\* call only; and an operation calls only listeners that are in the list of
\* the store it changes.  So an unsubscribed listener is not called by any
\* later mutation, for the callback modules and for wallet-store alike.
C30_UnsubscribedNeverCalled ==
    [][/\ \A p \in Providers : \A l \in ListenerIds :
             /\ Unsubscribe(p, l) => RemovedFrom(listeners[p], listeners'[p], l)
             /\ (l \in Range(listeners'[p]) /\ l \notin Range(listeners[p]))
                => (lastOp'.op = "subscribe" /\ lastOp'.p = p)
             /\ (lastOp'.op = "reset" /\ lastOp'.p = p /\ l \notin Range(listeners[p]))
                => \A i \in 1..Len(notified') : notified'[i].listener # l
       /\ \A s \in Slots : \A l \in SlotListenerIds :
             /\ UnsubscribeSlot(s, l)
                => RemovedFrom(slotListeners[s], slotListeners'[s], l)
             /\ (l \in Range(slotListeners'[s]) /\ l \notin Range(slotListeners[s]))
                => (lastOp'.op = "subscribeSlot" /\ lastOp'.p = s
                    /\ lastOp'.listener = l)
             /\ (lastOp'.op = "setSlot" /\ lastOp'.p = s
                 /\ l \notin Range(slotListeners[s]))
                => \A i \in 1..Len(notified') : notified'[i].listener # l]_vars

\* C30 witness: setRef was subscribed twice to the activeWallet slot, before
\* and after setState; the unsubscribe returned for setRef was called and
\* left setState alone in the list.
C30_Witness ==
    /\ lastOp.op = "unsubscribeSlot"
    /\ lastOp.p = "activeWallet"
    /\ lastOp.listener = "setRef"
    /\ lastOp.before = <<"setRef", "setState", "setRef">>
    /\ slotListeners["activeWallet"] = <<"setState">>

\* C31: each wallet-store setter makes the getter of its slot return the new
\* value, calls the listeners of that slot and no others, once per
\* subscription, in subscription order, with the new value, and leaves the
\* other three slots and all four listener lists as they were.
C31_SetterNotifiesOwnSlotOnly ==
    [][\A s \in Slots : \A next \in SlotValues(s) :
          (lastOp'.op = "setSlot" /\ lastOp'.p = s /\ SetSlot(s, next))
          => /\ GetSlot(s)' = next
             /\ Len(notified') = Len(slotListeners[s])
             /\ \A i \in 1..Len(slotListeners[s]) :
                   /\ notified'[i].listener = slotListeners[s][i]
                   /\ notified'[i].next = next
             /\ \A t \in Slots \ {s} : GetSlot(t)' = GetSlot(t)
             /\ slotListeners' = slotListeners]_vars

\* C31 witness: setPhantomBoxKeypair(keypair) called setState and then setRef,
\* the two listeners of its slot, while the activeWallet slot had a listener
\* of its own and kept its value.
C31_Witness ==
    /\ lastOp.op = "setSlot"
    /\ lastOp.p = "phantomBoxKeypair"
    /\ slotListeners["phantomBoxKeypair"] = <<"setState", "setRef">>
    /\ slotListeners["activeWallet"] = <<"log">>
    /\ GetSlot("phantomBoxKeypair") = DappKey(WALLET_PHANTOM, 1)
    /\ GetSlot("activeWallet") = WALLET_LOCAL
    /\ notified = <<[listener |-> "setState", next |-> DappKey(WALLET_PHANTOM, 1)],
                    [listener |-> "setRef", next |-> DappKey(WALLET_PHANTOM, 1)]>>

====
